---- MODULE Spec2Model ----
(***************************************************************************)
(* Weather Agent CLI: the start-up sequence, the chat loop of main.py and  *)
(* the two-node graph (assistant, tools) it drives, with the registered    *)
(* tools of weather_agent.py and calendar_client.py and the backend        *)
(* selection of utils.py.                                                  *)
(*                                                                         *)
(* A string of the program is a sequence of tokens here: <<>> is the empty *)
(* string "", the only falsy content.  A tool call's id is the pair        *)
(* <<k, i>>: the i-th call proposed by the k-th model response of the turn.*)
(***************************************************************************)
EXTENDS Naturals, Sequences, FiniteSets

VARIABLES
    pc,          \* where the process is: startup, prompt, assistant, tools, render, exited, crashed, config_error
    env,         \* os.environ, the three variables setup_llm reads
    user,        \* the lines the user of this run may type at the prompt
    llm,         \* the client setup_llm returned (main.py:39)
    user_input,  \* main.py:108, the line read last
    messages,    \* main.py:101, the history the CLI keeps across turns
    state,       \* CustomState of the running graph: [messages, gathering_mode]
    response,    \* the model's response as returned by llm_with_tools.invoke (main.py:66)
    sys_msg,     \* the system message of the last model invocation (main.py:65)
    toolLog,     \* the tool calls ToolNode executed in this turn, in order, each with how it ended
    nModel,      \* model invocations made in this turn
    turns,       \* turns started
    console      \* the last thing printed

vars == <<pc, env, user, llm, user_input, messages, state, response, sys_msg, toolLog, nModel, turns, console>>

-----------------------------------------------------------------------------
(* Bounds *)

MaxTurns == 2
MaxIter == 2
MaxCalls == 2

-----------------------------------------------------------------------------
(* Configuration: utils.py *)

UNSET == "<unset>"
EnvValues == {UNSET, "", "value"}

\* Every environment setup_llm can meet.
Envs ==
    [AZURE_OPENAI_ENDPOINT : EnvValues, AZURE_OPENAI_API_KEY : EnvValues,
     OPENAI_API_KEY : EnvValues]

\* Three of them: everything configured, the direct key alone, nothing.
EnvSample ==
    {[AZURE_OPENAI_ENDPOINT |-> "value", AZURE_OPENAI_API_KEY |-> "value", OPENAI_API_KEY |-> "value"],
     [AZURE_OPENAI_ENDPOINT |-> UNSET, AZURE_OPENAI_API_KEY |-> UNSET, OPENAI_API_KEY |-> "value"],
     [AZURE_OPENAI_ENDPOINT |-> UNSET, AZURE_OPENAI_API_KEY |-> UNSET, OPENAI_API_KEY |-> UNSET]}

\* Python truthiness of what os.getenv returns: None and "" are falsy.
Truthy(v) == v # UNSET /\ v # ""

ValueError == "ValueError"
NoLlm == "<no llm>"

setup_azure_openai(e) ==
    IF ~Truthy(e.AZURE_OPENAI_ENDPOINT) \/ ~Truthy(e.AZURE_OPENAI_API_KEY)
    THEN ValueError
    ELSE "AzureChatOpenAI"

setup_openai(e) ==
    IF ~Truthy(e.OPENAI_API_KEY) THEN ValueError ELSE "ChatOpenAI"

\* The priority reversed: the direct key is looked at first.
setup_llm_DirectFirst(e) ==
    IF Truthy(e.OPENAI_API_KEY)
    THEN setup_openai(e)
    ELSE IF Truthy(e.AZURE_OPENAI_ENDPOINT) /\ Truthy(e.AZURE_OPENAI_API_KEY)
         THEN setup_azure_openai(e)
         ELSE ValueError

setup_llm(e) ==
    IF Truthy(e.AZURE_OPENAI_ENDPOINT) /\ Truthy(e.AZURE_OPENAI_API_KEY)
    THEN setup_azure_openai(e)
    ELSE IF Truthy(e.OPENAI_API_KEY)
         THEN setup_openai(e)
         ELSE ValueError

-----------------------------------------------------------------------------
(* Messages *)

NoId == <<0, 0>>

HumanMessage(c) ==
    [type |-> "human", content |-> c, tool_calls |-> <<>>, id |-> 0,
     meta |-> "none", tool_call_id |-> NoId, name |-> "", status |-> ""]

AIMessage(c, calls, ident, md) ==
    [type |-> "ai", content |-> c, tool_calls |-> calls, id |-> ident,
     meta |-> md, tool_call_id |-> NoId, name |-> "", status |-> ""]

ToolMessage(c, call, st) ==
    [type |-> "tool", content |-> c, tool_calls |-> <<>>, id |-> 0,
     meta |-> "none", tool_call_id |-> call.id, name |-> call.name, status |-> st]

SystemMessage(c) ==
    [type |-> "system", content |-> c, tool_calls |-> <<>>, id |-> 0,
     meta |-> "none", tool_call_id |-> NoId, name |-> "", status |-> ""]

NoResponse == AIMessage(<<>>, <<>>, 0, "none")
NoState == [messages |-> <<>>, gathering_mode |-> FALSE]
NoSysMsg == SystemMessage(<<>>)

Last(s) == s[Len(s)]

-----------------------------------------------------------------------------
(* The registered tools: main.py:40-47 *)

tools ==
    {"extract_city_weather", "add_city_to_favorites", "remove_city_from_favorites",
     "create_event", "get_events_for_date"}

\* Names the model may put in a tool call: the registered ones, and one
\* that is not registered.
ProposableNames == tools \cup {"get_forecast"}

\* The names of the calls a response proposes after its first one (one
\* registered, one not).
TailNames == {"create_event", "get_forecast"}

\* Each tool is given by the ways a call of it can end and what it then
\* hands back.  "ok": it did its work; "swallowed": a fault inside was
\* caught by the function's own try/except; "raised": an exception left
\* the function.  What it hands back is the text of the ToolResult ("null"
\* for None, "[]" for the empty list), Raised when nothing is returned.
Raised == <<"<exception>">>

\* weather_agent.py: except Exception, return "".
extract_city_weather == [ok |-> <<"markdown_page">>, swallowed |-> <<>>]

\* weather_agent.py: no return value, every Exception caught and printed.
add_city_to_favorites == [ok |-> <<"null">>, swallowed |-> <<"null">>]

remove_city_from_favorites == [ok |-> <<"null">>, swallowed |-> <<"null">>]

\* calendar_client.py: HttpError alone is caught (None is returned).
create_event == [ok |-> <<"event">>, swallowed |-> <<"null">>, raised |-> Raised]

\* calendar_client.py: list_events catches HttpError alone (and returns []).
get_events_for_date == [ok |-> <<"events">>, swallowed |-> <<"[]">>, raised |-> Raised]

\* The tool registered under a name.
ToolByName(name) ==
    CASE name = "extract_city_weather"       -> extract_city_weather
      [] name = "add_city_to_favorites"      -> add_city_to_favorites
      [] name = "remove_city_from_favorites" -> remove_city_from_favorites
      [] name = "create_event"               -> create_event
      [] name = "get_events_for_date"        -> get_events_for_date

ToolOutcomes(name) == DOMAIN ToolByName(name)

ToolReturn(name, outcome) == ToolByName(name)[outcome]

-----------------------------------------------------------------------------
(* The graph: main.py:50-99 *)

get_sys_msg(gathering_mode) ==
    IF gathering_mode
    THEN SystemMessage(<<"base_msg", "information gathering mode">>)
    ELSE SystemMessage(<<"base_msg", "provide a comprehensive response">>)

\* A slip in the slice: the last call is kept.
Truncate_KeepLast(r) ==
    IF Len(r.tool_calls) > 1
    THEN AIMessage(r.content, SubSeq(r.tool_calls, Len(r.tool_calls), Len(r.tool_calls)), r.id, r.meta)
    ELSE r

\* The truncation left out: the response is appended as the model gave it.
Truncate_None(r) == r

\* The message rebuilt from the content and the first call alone.
Truncate_DropMeta(r) ==
    IF Len(r.tool_calls) > 1
    THEN AIMessage(r.content, SubSeq(r.tool_calls, 1, 1), 0, "none")
    ELSE r

\* main.py:69-78: keep only the first tool call. The message is built anew
\* from content, tool_calls[:1], additional_kwargs and response_metadata
\* (meta) and id.
Truncate(r) ==
    IF Len(r.tool_calls) > 1
    THEN AIMessage(r.content, SubSeq(r.tool_calls, 1, 1), r.id, r.meta)
    ELSE r

\* The test of main.py:81 negated.
NewGatheringMode_Inverted(r) == r.tool_calls = <<>>

\* main.py:81
NewGatheringMode(r) == r.tool_calls # <<>>

\* Routing on the content instead of the tool calls.
tools_condition_ByContent(st) ==
    IF Last(st.messages).content = <<>> THEN "tools" ELSE "render"

\* langgraph's tools_condition: the node that follows the assistant node.
tools_condition(st) ==
    IF Last(st.messages).tool_calls # <<>> THEN "tools" ELSE "render"

\* ToolNode resolves a call by exact name.
Resolves(name) == name \in tools

\* ToolNode's message for one call, given how the invocation ended
\* ("unresolved": no tool of that name).
ToolNodeMessage(call, outcome) ==
    CASE outcome = "unresolved" ->
            ToolMessage(<<"Error:", call.name, "is not a valid tool">>, call, "error")
      [] outcome = "raised" ->
            ToolMessage(<<"Error:", "exception", "Please fix your mistakes.">>, call, "error")
      [] OTHER ->
            ToolMessage(ToolReturn(call.name, outcome), call, "success")

\* A failed lookup handled like an exception of the tool.
CallOutcomes_NoLookup(call) ==
    IF Resolves(call.name) THEN ToolOutcomes(call.name) ELSE {"raised"}

\* The outcomes ToolNode can see for a call.
CallOutcomes(call) ==
    IF Resolves(call.name) THEN ToolOutcomes(call.name) ELSE {"unresolved"}

\* A call whose tool raised is executed a second time.
Executions_Retry(calls, outs) ==
    [i \in 1..Len(calls) |->
        [name |-> calls[i].name, id |-> calls[i].id, outcome |-> outs[i]]]
    \o SelectSeq([i \in 1..Len(calls) |->
                    [name |-> calls[i].name, id |-> calls[i].id, outcome |-> outs[i]]],
                 LAMBDA x : x.outcome = "raised")

\* ToolNode executes each call once: one entry per call, the tool function
\* being called unless the outcome is "unresolved".
Executions(calls, outs) ==
    [i \in 1..Len(calls) |->
        [name |-> calls[i].name, id |-> calls[i].id, outcome |-> outs[i]]]

ToolNodeMessages(calls, outs) ==
    [i \in 1..Len(calls) |-> ToolNodeMessage(calls[i], outs[i])]

\* The content of a response that ends the turn: "" or a text.
Contents == {<<>>, <<"answer">>}

\* The content of a response that proposes tool calls.
CallContents == {<<"thinking">>}

TailSeqs == UNION {[1..n -> TailNames] : n \in 0..(MaxCalls - 1)}

\* The names of the calls of one response, in the proposed order.
NameSeqs == {<<>>} \cup {<<a>> \o t : a \in ProposableNames, t \in TailSeqs}

MkCalls(ns, k) == [i \in 1..Len(ns) |-> [name |-> ns[i], id |-> <<k, i>>]]

\* What the k-th model invocation of a turn may return.
Responses(k) ==
    {AIMessage(c, MkCalls(ns, k), k, "provider") : c \in CallContents, ns \in NameSeqs \ {<<>>}}
    \cup {AIMessage(c, <<>>, k, "provider") : c \in Contents}

-----------------------------------------------------------------------------
(* The CLI: main.py:27-47 and 101-125 *)

\* A line the user types is a sequence of tokens: words, and " " for a run
\* of whitespace.
Whitespace == " "

\* str.lower, word by word.
Lower(w) ==
    CASE w = "EXIT" -> "exit"
      [] w = "Exit" -> "exit"
      [] w = "QUIT" -> "quit"
      [] w = "Quit" -> "quit"
      [] OTHER -> w

lower(u) == [i \in 1..Len(u) |-> Lower(u[i])]

RECURSIVE lstrip(_)
lstrip(u) == IF u # <<>> /\ u[1] = Whitespace THEN lstrip(Tail(u)) ELSE u

RECURSIVE rstrip(_)
rstrip(u) ==
    IF u # <<>> /\ u[Len(u)] = Whitespace THEN rstrip(SubSeq(u, 1, Len(u) - 1)) ELSE u

strip(u) == rstrip(lstrip(u))

\* The input compared without trimming it.
IsExitCommand_NoStrip(u) == lower(u) \in {<<"exit">>, <<"quit">>}

\* main.py:109
IsExitCommand(u) == lower(strip(u)) \in {<<"exit">>, <<"quit">>}

\* What a user may type at the prompt.
Inputs ==
    {<<"exit">>, <<"quit">>, <<Whitespace, "EXIT", Whitespace>>, <<"Quit", Whitespace>>,
     <<"question">>, <<"exit", Whitespace, "now">>}

\* A user who types a question or exit, nothing else.
PlainInputs == {<<"exit">>, <<"question">>}

\* One configured environment and one that is not.
EnvPair ==
    {[AZURE_OPENAI_ENDPOINT |-> UNSET, AZURE_OPENAI_API_KEY |-> UNSET, OPENAI_API_KEY |-> "value"],
     [AZURE_OPENAI_ENDPOINT |-> UNSET, AZURE_OPENAI_API_KEY |-> UNSET, OPENAI_API_KEY |-> UNSET]}

InitWith(E, U) ==
    /\ pc = "startup"
    /\ env \in E
    /\ user = U
    /\ user_input = <<>>
    /\ llm = NoLlm
    /\ messages = <<>>
    /\ state = NoState
    /\ response = NoResponse
    /\ sys_msg = NoSysMsg
    /\ toolLog = <<>>
    /\ nModel = 0
    /\ turns = 0
    /\ console = <<"none">>

Init == InitWith(EnvSample, PlainInputs)

\* The same program started in any environment.
InitConfig == InitWith(Envs, PlainInputs)

\* The same program with a user who types any of Inputs.
InitInput == InitWith(EnvPair, Inputs)

\* main.py:39-47, 99-106: a client is configured, the graph is built.
Startup ==
    /\ pc = "startup"
    /\ setup_llm(env) # ValueError
    /\ llm' = setup_llm(env)
    /\ pc' = "prompt"
    /\ console' = <<"welcome">>
    /\ UNCHANGED <<env, user, user_input, messages, state, response, sys_msg, toolLog, nModel, turns>>

\* main.py:39: setup_llm raises, nothing catches it.
StartupConfigError ==
    /\ pc = "startup"
    /\ setup_llm(env) = ValueError
    /\ pc' = "config_error"
    /\ console' = <<"ValueError", "must be provided">>
    /\ UNCHANGED <<env, user, user_input, llm, messages, state, response, sys_msg, toolLog, nModel, turns>>

\* main.py:108-111
ReadExit ==
    /\ pc = "prompt"
    /\ \E u \in user :
        /\ IsExitCommand(u)
        /\ user_input' = u
        /\ pc' = "exited"
        /\ console' = <<"Goodbye!">>
    /\ UNCHANGED <<env, user, llm, messages, state, response, sys_msg, toolLog, nModel, turns>>

\* A turn started in responding mode.
InitialState_Responding(hist) == [messages |-> hist, gathering_mode |-> FALSE]

\* main.py:114: the input of graph.invoke, the history and gathering_mode True.
InitialState(hist) == [messages |-> hist, gathering_mode |-> TRUE]

\* main.py:108-114: the input opens a turn.
ReadInput ==
    /\ pc = "prompt"
    /\ turns < MaxTurns
    /\ \E u \in user :
        /\ ~IsExitCommand(u)
        /\ user_input' = u
        /\ messages' = Append(messages, HumanMessage(u))
        /\ state' = InitialState(messages')
    /\ pc' = "assistant"
    /\ response' = NoResponse
    /\ toolLog' = <<>>
    /\ nModel' = 0
    /\ turns' = turns + 1
    /\ console' = <<"Thinking...">>
    /\ UNCHANGED <<env, user, llm, sys_msg>>

\* main.py:65-66: the list given to the model, the system message first.
Context(st) == <<get_sys_msg(st.gathering_mode)>> \o st.messages

\* The system message returned with the response, and so stored.
AssistantUpdate_StoreSys(st, r) ==
    [messages |-> st.messages \o <<get_sys_msg(st.gathering_mode), Truncate(r)>>,
     gathering_mode |-> NewGatheringMode(Truncate(r))]

\* main.py:80-83: the update the assistant node returns, merged in the
\* state (the messages by the add_messages reducer of MessagesState).
AssistantUpdate(st, r) ==
    [messages |-> Append(st.messages, Truncate(r)),
     gathering_mode |-> NewGatheringMode(Truncate(r))]

\* A tool node that replaces the calling message by its results and
\* writes the flag.
ToolNodeUpdate_Rewrite(st, msgs) ==
    [messages |-> SubSeq(st.messages, 1, Len(st.messages) - 1) \o msgs,
     gathering_mode |-> FALSE]

\* main.py:23-24, 89: the update of ToolNode holds messages only; they are
\* appended and gathering_mode keeps its value.
ToolNodeUpdate(st, msgs) == [st EXCEPT !.messages = @ \o msgs]

\* main.py:64-83 and the conditional edge of 93-96.
assistant ==
    /\ pc = "assistant"
    /\ \E r \in Responses(nModel + 1) :
        /\ (r.tool_calls # <<>>) => nModel < MaxIter
        /\ response' = r
        /\ state' = AssistantUpdate(state, r)
    /\ sys_msg' = Context(state)[1]
    /\ nModel' = nModel + 1
    /\ pc' = tools_condition(state')
    /\ UNCHANGED <<env, user, user_input, llm, messages, toolLog, turns, console>>

\* main.py:66: llm_with_tools.invoke raises; nothing between there and the
\* top of the script catches it.
assistantModelFault ==
    /\ pc = "assistant"
    /\ sys_msg' = Context(state)[1]
    /\ nModel' = nModel + 1
    /\ pc' = "crashed"
    /\ console' = <<"Traceback">>
    /\ UNCHANGED <<env, user, user_input, llm, messages, state, response, toolLog, turns>>

\* The edge left commented out at main.py:97: the tool node again.
AfterTools_Loop == "tools"

\* main.py:98: the node that follows the tool node.
AfterTools == "assistant"

\* main.py:89, 98: ToolNode runs every tool call of the last message.
ToolNode ==
    /\ pc = "tools"
    /\ LET calls == Last(state.messages).tool_calls IN
       \E outs \in [1..Len(calls) -> {"ok", "swallowed", "raised", "unresolved"}] :
        /\ \A i \in 1..Len(calls) : outs[i] \in CallOutcomes(calls[i])
        /\ state' = ToolNodeUpdate(state, ToolNodeMessages(calls, outs))
        /\ toolLog' = toolLog \o Executions(calls, outs)
    /\ pc' = AfterTools
    /\ UNCHANGED <<env, user, user_input, llm, messages, response, sys_msg, nModel, turns, console>>

\* The whole state of the graph kept as the history.
NewHistory_KeepState(hist, st) == st.messages

\* main.py:115: the history gets an AIMessage made of the answer's content.
NewHistory(hist, st) == Append(hist, AIMessage(Last(st.messages).content, <<>>, 0, "none"))

\* The panel printed whatever the content.
Rendered_NoCheck(content) == <<"Panel">> \o content

\* main.py:116-125: what is printed for the answer.
Rendered(content) ==
    IF content # <<>>
    THEN <<"Panel">> \o content
    ELSE <<"No response from agent.">>

\* main.py:115-125: graph.invoke has returned its final state; the answer
\* is stored and printed, and the turn (with the graph's run) is over.
Render ==
    /\ pc = "render"
    /\ messages' = NewHistory(messages, state)
    /\ console' = Rendered(Last(state.messages).content)
    /\ pc' = "prompt"
    /\ state' = NoState
    /\ response' = NoResponse
    /\ toolLog' = <<>>
    /\ nModel' = 0
    /\ UNCHANGED <<env, user, user_input, llm, sys_msg, turns>>

Next ==
    \/ Startup
    \/ StartupConfigError
    \/ ReadExit
    \/ ReadInput
    \/ assistant
    \/ assistantModelFault
    \/ ToolNode
    \/ Render

Spec == Init /\ [][Next]_vars

SpecConfig == InitConfig /\ [][Next]_vars

SpecInput == InitInput /\ [][Next]_vars

\* The runtime of the graph runs the node that is due, which returns or
\* raises, and the CLI prints the answer once graph.invoke has returned;
\* nothing obliges the user to type a line.
Fairness ==
    /\ WF_vars(assistant \/ assistantModelFault)
    /\ WF_vars(ToolNode)
    /\ WF_vars(Render)

InitLive == InitWith(EnvPair, PlainInputs)

SpecLive == InitLive /\ [][Next]_vars /\ Fairness

-----------------------------------------------------------------------------
(* Properties *)

\* The turn's part of the graph state: what follows the history the turn
\* started from (which ends with the turn's User message).
TurnMessages == SubSeq(state.messages, Len(messages) + 1, Len(state.messages))

\* The executions ToolNode made for the calls of the k-th response.
ExecutionsOf(k) == {i \in 1..Len(toolLog) : toolLog[i].id[1] = k}

\* The ToolResult messages of the turn that answer a call of the k-th response.
ResultsOf(k) ==
    {j \in 1..Len(TurnMessages) :
        TurnMessages[j].type = "tool" /\ TurnMessages[j].tool_call_id[1] = k}

\* C1: when the first response of a turn has no tool call, no tool is
\* executed, the graph ends right after that response (no tools step), and
\* the state it returns is the history plus that response, whose content
\* is the answer.
C1_NoToolCallEndsTurn ==
    (nModel = 1 /\ response.id = 1 /\ response.tool_calls = <<>>) =>
        /\ pc = "render"
        /\ toolLog = <<>>
        /\ state.messages = Append(messages, response)
        /\ Last(state.messages).content = response.content

C1_Witness ==
    /\ pc = "render"
    /\ nModel = 1
    /\ response.id = 1
    /\ response.tool_calls = <<>>
    /\ response.content = <<"answer">>
    /\ toolLog = <<>>

\* C2: for a response that proposes two or more tool calls, exactly one
\* call is executed, the first of the proposed order, and no call proposed
\* after the first is executed at any point of the turn.
C2_OnlyFirstCallExecuted ==
    /\ \A i \in 1..Len(toolLog) : toolLog[i].id[2] = 1
    /\ \A j \in 1..Len(TurnMessages) :
            TurnMessages[j].type = "tool" => TurnMessages[j].tool_call_id[2] = 1
    /\ (response.id >= 1 /\ Len(response.tool_calls) >= 2) =>
        /\ pc \in {"tools", "assistant", "crashed"}
        /\ pc = "tools" => ExecutionsOf(response.id) = {} /\ ResultsOf(response.id) = {}
        /\ pc # "tools" =>
            /\ Cardinality(ExecutionsOf(response.id)) = 1
            /\ Cardinality(ResultsOf(response.id)) = 1
            /\ Last(toolLog).id = response.tool_calls[1].id
            /\ Last(toolLog).name = response.tool_calls[1].name

C2_Witness ==
    /\ pc = "assistant"
    /\ Len(response.tool_calls) >= 2
    /\ response.tool_calls[2].name = "create_event"
    /\ toolLog # <<>>
    /\ Last(toolLog).id = <<response.id, 1>>
    /\ Last(toolLog).outcome = "ok"

\* C3: when a turn ends after k tool-calling responses and one response
\* without a tool call, the returned state is the history up to the turn's
\* User message, then k pairs (Assistant with exactly one call, ToolResult
\* with that call's id), then the final Assistant message without a call.
C3_TurnShape ==
    pc = "render" =>
        LET k == nModel - 1
            t == TurnMessages
        IN  /\ Len(messages) >= 1
            /\ SubSeq(state.messages, 1, Len(messages)) = messages
            /\ Last(messages).type = "human"
            /\ Len(t) = 2 * k + 1
            /\ \A j \in 1..k :
                    /\ t[2 * j - 1].type = "ai"
                    /\ Len(t[2 * j - 1].tool_calls) = 1
                    /\ t[2 * j].type = "tool"
                    /\ t[2 * j].tool_call_id = t[2 * j - 1].tool_calls[1].id
            /\ t[2 * k + 1].type = "ai"
            /\ t[2 * k + 1].tool_calls = <<>>

\* One tool call, first turn: User, Assistant-with-call, ToolResult, Assistant-final.
C3_Witness ==
    /\ pc = "render"
    /\ turns = 1
    /\ nModel = 2
    /\ Len(state.messages) = 4
    /\ state.messages[1].type = "human"
    /\ state.messages[2].tool_calls # <<>>
    /\ state.messages[3].type = "tool"
    /\ state.messages[4].type = "ai"


\* An execution that did not do its work: the tool caught a fault of its
\* own, raised, or was not found.
Failed(x) == x.outcome \in {"swallowed", "raised", "unresolved"}

\* The ToolResult messages of the turn that answer the call with this id.
ResultsFor(id) ==
    {j \in 1..Len(TurnMessages) :
        TurnMessages[j].type = "tool" /\ TurnMessages[j].tool_call_id = id}

\* C4: a tool invocation that fails reaches the model as a ToolResult for
\* that request with a non-empty payload, and the process keeps running.
C4_ToolFaultReported ==
    \A i \in 1..Len(toolLog) :
        Failed(toolLog[i]) =>
            /\ ResultsFor(toolLog[i].id) # {}
            /\ \A j \in ResultsFor(toolLog[i].id) : TurnMessages[j].content # <<>>

\* C5: a failure of the model call is recovered by the CLI: the user is
\* told there is no response, the CLI is back at its prompt and the history
\* is what it was.
C5_ModelFaultRecovered ==
    [][assistantModelFault =>
        /\ pc' = "prompt"
        /\ console' = <<"No response from agent.">>
        /\ messages' = messages]_vars

\* C6: once started, the process ends only through the exit command.
C6_TerminatesOnlyOnExit ==
    pc \notin {"startup", "config_error"} =>
        pc \in {"prompt", "assistant", "tools", "render", "exited"}

\* C7: gathering_mode is True when a turn starts; after the assistant step
\* it is True exactly when the appended (possibly truncated) response
\* carries a tool call, so False exactly when it carries none; it is still
\* True when the assistant step runs again after the tools step.
C7_GatheringMode ==
    /\ (pc = "assistant" /\ nModel = 0) => state.gathering_mode = TRUE
    /\ pc \in {"tools", "render"} =>
        /\ state.gathering_mode = (Last(state.messages).tool_calls # <<>>)
        /\ state.gathering_mode = (response.tool_calls # <<>>)
    /\ (pc = "assistant" /\ nModel > 0) => state.gathering_mode = TRUE

C7_Witness ==
    /\ pc = "render"
    /\ nModel = 2
    /\ state.gathering_mode = FALSE
    /\ TurnMessages[1].tool_calls # <<>>

\* C8: a call whose name is not registered gets a ToolResult with error
\* status whose payload holds that name; no tool function is called for it,
\* and the graph goes on to the next model invocation.
C8_UnknownToolReported ==
    \A i \in 1..Len(toolLog) :
        toolLog[i].name \notin tools =>
            /\ toolLog[i].outcome = "unresolved"
            /\ ResultsFor(toolLog[i].id) # {}
            /\ \A j \in ResultsFor(toolLog[i].id) :
                    /\ TurnMessages[j].status = "error"
                    /\ \E n \in 1..Len(TurnMessages[j].content) :
                            TurnMessages[j].content[n] = toolLog[i].name
            /\ toolLog[i].id[1] = nModel => pc = "assistant"

\* The turn went on to its end after the unknown name.
C8_Witness ==
    /\ pc = "render"
    /\ \E i \in 1..Len(toolLog) :
            toolLog[i].name = "get_forecast" /\ toolLog[i].outcome = "unresolved"

\* The Assistant messages of the turn that carry a tool call.
CallingMessages ==
    {j \in 1..Len(TurnMessages) :
        TurnMessages[j].type = "ai" /\ TurnMessages[j].tool_calls # <<>>}

\* C9: no call is executed twice, whatever its outcome; once the tools
\* step has run, the executions of the turn are as many as its Assistant
\* messages carrying a call, one per message, for that message's call.
C9_ExecutedOnce ==
    /\ \A i, j \in 1..Len(toolLog) : toolLog[i].id = toolLog[j].id => i = j
    /\ pc # "tools" =>
        /\ Len(toolLog) = Cardinality(CallingMessages)
        /\ \A j \in CallingMessages :
                Cardinality({i \in 1..Len(toolLog) :
                                toolLog[i].id = TurnMessages[j].tool_calls[1].id}) = 1
    /\ pc = "tools" => Len(toolLog) = Cardinality(CallingMessages) - 1

\* A turn that ended with two executions, one of them of a tool that raised.
C9_Witness ==
    /\ pc = "render"
    /\ Len(toolLog) = 2
    /\ toolLog[1].outcome = "raised"

EnterpriseConfigured == Truthy(env.AZURE_OPENAI_ENDPOINT) /\ Truthy(env.AZURE_OPENAI_API_KEY)
DirectConfigured == Truthy(env.OPENAI_API_KEY)

\* C10: once start-up is over, the enterprise client is in use when the
\* enterprise endpoint and key are both set; else the direct client when
\* the direct key is set; else the process stopped at start-up with the
\* configuration error and no turn was ever started.
C10_BackendPriority ==
    pc # "startup" =>
        /\ EnterpriseConfigured => llm = "AzureChatOpenAI" /\ pc # "config_error"
        /\ (~EnterpriseConfigured /\ DirectConfigured) =>
                llm = "ChatOpenAI" /\ pc # "config_error"
        /\ (~EnterpriseConfigured /\ ~DirectConfigured) =>
                /\ pc = "config_error"
                /\ llm = NoLlm
                /\ console = <<"ValueError", "must be provided">>
                /\ turns = 0
                /\ nModel = 0
                /\ messages = <<>>

\* Both configured: a turn runs on the enterprise client.
C10_Witness ==
    /\ EnterpriseConfigured
    /\ DirectConfigured
    /\ llm = "AzureChatOpenAI"
    /\ pc = "render"


\* The lines of Inputs that are exit or quit once trimmed and lowered.
ExitLines ==
    {<<"exit">>, <<"quit">>, <<Whitespace, "EXIT", Whitespace>>, <<"Quit", Whitespace>>}

\* The step of the chat loop that opens a turn with the line u.
StartsTurn(u) == ReadInput /\ user_input' = u

\* C11: the process has exited only on an exit line, with the farewell as
\* its last output, no message added for that line (the history holds
\* whole turns only) and no graph run or model invocation for it; a turn
\* is running only on a line that is not an exit line, which is then in the
\* history; at the prompt every exit line can end the process and cannot
\* open a turn, and every other line can open one.
C11_ExitCommand ==
    /\ pc = "exited" =>
        /\ user_input \in ExitLines
        /\ console = <<"Goodbye!">>
        /\ Len(messages) = 2 * turns
        /\ \A i \in 1..Len(messages) : messages[i].content # user_input
        /\ state = NoState
        /\ nModel = 0
    /\ pc \in {"assistant", "tools", "render", "crashed"} =>
        /\ user_input \notin ExitLines
        /\ messages[2 * turns - 1] = HumanMessage(user_input)
    /\ (pc = "prompt" /\ turns < MaxTurns) =>
        /\ ENABLED ReadExit
        /\ \A u \in user : (u \in ExitLines) <=> ~ENABLED StartsTurn(u)

\* The process exited on " EXIT " after one whole turn.
C11_Witness ==
    /\ pc = "exited"
    /\ user_input = <<Whitespace, "EXIT", Whitespace>>
    /\ turns = 1
    /\ Len(messages) = 2

\* A line that only begins with exit opens a turn.
C11_WitnessOther ==
    /\ pc = "assistant"
    /\ user_input = <<"exit", Whitespace, "now">>


\* C12: a final answer with empty content is printed as "No response from
\* agent." and stored like any answer; that line is on the console only
\* while the CLI is back at its prompt, and a non-empty answer is printed
\* in its panel.
C12_EmptyAnswer ==
    /\ (pc = "prompt" /\ turns > 0) =>
        /\ Last(messages).type = "ai"
        /\ Last(messages).content = <<>> => console = <<"No response from agent.">>
        /\ Last(messages).content # <<>> => console = <<"Panel">> \o Last(messages).content
    /\ console = <<"No response from agent.">> =>
        /\ pc = "prompt"
        /\ Last(messages) = AIMessage(<<>>, <<>>, 0, "none")
    /\ (pc = "render" /\ Last(state.messages).content = <<>>) => ENABLED Render

\* After an empty answer the next turn has started.
C12_Witness ==
    /\ turns = 2
    /\ pc = "assistant"
    /\ Len(messages) = 3
    /\ messages[2] = AIMessage(<<>>, <<>>, 0, "none")

\* C13: neither the state of the graph nor the history of the CLI holds a
\* system message, while every list given to the model starts with one.
C13_SystemNotStored ==
    /\ \A i \in 1..Len(state.messages) : state.messages[i].type # "system"
    /\ \A i \in 1..Len(messages) : messages[i].type # "system"
    /\ pc = "assistant" =>
        /\ Context(state)[1].type = "system"
        /\ SubSeq(Context(state), 2, Len(Context(state))) = state.messages
    /\ nModel > 0 => sys_msg.type = "system" /\ sys_msg.content # <<>>

\* Two model invocations of one turn made, the second turn's answer stored
\* in the state.
C13_Witness ==
    /\ pc = "render"
    /\ turns = 2
    /\ nModel = 2
    /\ sys_msg = get_sys_msg(TRUE)
    /\ Len(state.messages) = 6

\* C14: the message appended for a response has the content, the metadata
\* (additional_kwargs and response_metadata) and the identifier of the
\* response; its tool calls are the first proposed call alone when the
\* response proposes several, and it is the response itself when the
\* response proposes one call or none.
C14_TruncationKeepsFields ==
    pc \in {"tools", "render"} =>
        LET m == Last(state.messages) IN
        /\ m.type = "ai"
        /\ m.content = response.content
        /\ m.meta = response.meta
        /\ m.id = response.id
        /\ Len(response.tool_calls) > 1 => m.tool_calls = <<response.tool_calls[1]>>
        /\ Len(response.tool_calls) <= 1 => m = response

\* A response with two proposed calls has been appended with one.
C14_Witness ==
    /\ pc = "tools"
    /\ Len(response.tool_calls) = 2
    /\ response.meta = "provider"
    /\ Len(Last(state.messages).tool_calls) = 1

\* The steps of the graph inside one turn.
InTurn == pc \in {"assistant", "tools"}

\* C15: the step of the tool node leaves gathering_mode as it is and only
\* appends tool messages; every step inside a turn keeps the messages it
\* found, in place, as a prefix of the messages it leaves; gathering_mode
\* is written by the assistant step alone, which sets it once, from the
\* message it appends.
C15_AppendOnly ==
    [][/\ pc = "tools" =>
            /\ state'.gathering_mode = state.gathering_mode
            /\ Len(state'.messages) > Len(state.messages)
            /\ \A i \in (Len(state.messages) + 1)..Len(state'.messages) :
                    state'.messages[i].type = "tool"
       /\ InTurn =>
            /\ Len(state'.messages) >= Len(state.messages)
            /\ SubSeq(state'.messages, 1, Len(state.messages)) = state.messages
       /\ (InTurn /\ state'.gathering_mode # state.gathering_mode) => pc = "assistant"
       /\ (pc = "assistant" /\ pc' # "crashed") =>
            /\ Len(state'.messages) = Len(state.messages) + 1
            /\ state'.gathering_mode = (Last(state'.messages).tool_calls # <<>>)
      ]_vars

\* The tool node has run in the second iteration of a turn: the state holds
\* the question, two calling messages and their results, and the flag set.
C15_Witness ==
    /\ pc = "assistant"
    /\ nModel = 2
    /\ Len(state.messages) >= 5
    /\ Last(state.messages).type = "tool"
    /\ state.gathering_mode

\* The assistant messages the graph has appended in the running turn.
TurnAnswers ==
    {i \in (2 * turns)..Len(state.messages) : state.messages[i].type = "ai"}

\* The graph has ended exactly when the last response has no tool call, and
\* that response is the first of the turn without one.
C16_EndsAtFirstPlainResponse ==
    /\ pc = "render" =>
        /\ response.tool_calls = <<>>
        /\ Last(state.messages) = response
        /\ \A i \in TurnAnswers : i < Len(state.messages) => state.messages[i].tool_calls # <<>>
    /\ pc = "tools" => response.tool_calls # <<>>
    /\ (pc = "assistant" /\ nModel > 0) =>
        /\ response.tool_calls # <<>>
        /\ \A i \in TurnAnswers : state.messages[i].tool_calls # <<>>

\* The only step after the response that ends the graph is the CLI's: no
\* model invocation and no tool execution is added to the turn.
C16_NoStepAfterEnd ==
    pc = "render" =>
        /\ pc' = "prompt"
        /\ messages' = Append(messages, AIMessage(response.content, <<>>, 0, "none"))
        /\ turns' = turns

\* C16: a turn ends at, and only at, the first response without a tool
\* call; after it nothing more is invoked in the turn; and a turn that has
\* started comes to its final assistant message, unless a model invocation
\* does not return a response.
C16_TurnEnds ==
    /\ []C16_EndsAtFirstPlainResponse
    /\ [][C16_NoStepAfterEnd]_vars
    /\ (InTurn \/ pc = "render") ~>
            \/ pc = "crashed"
            \/ /\ pc = "prompt"
               /\ Len(messages) = 2 * turns
               /\ turns > 0
               /\ Last(messages).type = "ai"
               /\ Last(messages).tool_calls = <<>>

\* A turn ended by its third response, after two iterations with tools.
C16_Witness ==
    /\ pc = "render"
    /\ nModel = 3
    /\ Len(toolLog) >= 2
    /\ response.tool_calls = <<>>

\* C17: whenever the assistant step is about to invoke the model the flag
\* is True and the system message of its context is the gathering one; the
\* flag is False only once the graph has ended; the system message sent to
\* the model is never the responding one.
C17_RespondingNeverSent ==
    /\ sys_msg # get_sys_msg(FALSE)
    /\ nModel > 0 => sys_msg = get_sys_msg(TRUE)
    /\ pc = "assistant" =>
        /\ state.gathering_mode
        /\ Context(state)[1] = get_sys_msg(TRUE)
    /\ pc = "tools" => state.gathering_mode
    /\ pc = "render" => ~state.gathering_mode

\* The second turn, after a first turn that ended with the flag False, is
\* about to invoke the model again after a tool step.
C17_Witness ==
    /\ turns = 2
    /\ pc = "assistant"
    /\ nModel = 1
    /\ state.gathering_mode
    /\ sys_msg = get_sys_msg(TRUE)
    /\ messages[2].type = "ai"

\* The history holds two messages for every completed turn and the question
\* of the running one; its messages are questions and answers in turn, an
\* answer being a bare assistant message; the state of the running turn
\* starts with the history as it is.
C18_HistoryShape ==
    /\ pc \in {"startup", "config_error", "prompt", "exited"} => Len(messages) = 2 * turns
    /\ pc \in {"assistant", "tools", "render", "crashed"} => Len(messages) = 2 * turns - 1
    /\ \A i \in 1..Len(messages) :
        /\ messages[i].type \in {"human", "ai"}
        /\ messages[i].type = "human" <=> i % 2 = 1
        /\ messages[i].tool_calls = <<>>
        /\ messages[i].type = "ai" => messages[i] = AIMessage(messages[i].content, <<>>, 0, "none")
    /\ pc \in {"assistant", "tools", "render"} =>
        /\ Len(state.messages) >= Len(messages)
        /\ SubSeq(state.messages, 1, Len(messages)) = messages
        /\ \A i \in 2..Len(messages) :
            /\ Context(state)[i].type # "tool"
            /\ Context(state)[i].tool_calls = <<>>

\* The end of a turn adds to the history one message, made of the content
\* of the final answer; no step inside a turn changes the history.
C18_HistoryStep ==
    /\ pc = "render" =>
        /\ Len(messages') = Len(messages) + 1
        /\ SubSeq(messages', 1, Len(messages)) = messages
        /\ Last(messages').content = Last(state.messages).content
    /\ InTurn => messages' = messages

\* C18: the history grows by the question and one assistant message with
\* the final answer's content per completed turn; calling messages and tool
\* results of a turn are not carried over, so the part of a later context
\* that comes from earlier turns holds neither.
C18_HistoryCarriesAnswersOnly == []C18_HistoryShape /\ [][C18_HistoryStep]_vars

\* The second turn has run a tool step: its state holds the two messages of
\* the first turn, the question, a calling message and its result.
C18_Witness ==
    /\ turns = 2
    /\ pc = "assistant"
    /\ Len(messages) = 3
    /\ Len(state.messages) >= 5
    /\ state.messages[4].tool_calls # <<>>
    /\ state.messages[5].type = "tool"

====
